---- MODULE Spec2Model ----
(***************************************************************************)
(* vbswap: a virtual block swap device that retains one page only, the     *)
(* swap header (page index 0), and hands it out to one reader.             *)
(* Model of drivers/block/vbswap/vbswap.c: the request handler             *)
(* vbswap_make_request, the validation in vbswap_valid_io_request and      *)
(* __vbswap_make_request, and the two page operations vbswap_bvec_read     *)
(* and vbswap_bvec_write over the global swap_header_page.                 *)
(*                                                                         *)
(* A page is modelled as PageChunks cells; a memcpy moves one cell per     *)
(* step, so that copies of concurrent callers interleave as they do on     *)
(* two CPUs.  The driver takes no lock, so every access to the global      *)
(* swap_header_page is a step of its own.                                  *)
(***************************************************************************)
EXTENDS Integers, Sequences, FiniteSets

\* ------------------------------------------------------------ bounds
\* callers that may have a request in flight at the same time (SpecConc)
NProcs == 2
\* page frames of the allocator
NPages == 2
\* cells a page is cut into (a memcpy moves one cell per step)
PageChunks == 2
\* distinct payload bytes a writer may supply: 1..MaxPayload
MaxPayload == 2
\* start sectors tried: 4*k and CapSectors - 8 + 8*k for k in 0..MaxSectorUnits
MaxSectorUnits == 2
\* segments (bio_vec) per request: 0..MaxSegs
MaxSegs == 2
\* a segment's bv_len: half pages, 1..MaxLenUnits of them
MaxLenUnits == 2
\* bytes written to the disksize attribute: 0..MaxStoreLen
MaxStoreLen == 2

\* ------------------------------------------------------------ constants
SECTOR_SHIFT == 9
SECTOR_SIZE == 2 ^ SECTOR_SHIFT
PAGE_SHIFT == 12
PAGE_SIZE == 2 ^ PAGE_SHIFT
SECTORS_PER_PAGE_SHIFT == PAGE_SHIFT - SECTOR_SHIFT
SECTORS_PER_PAGE == 2 ^ SECTORS_PER_PAGE_SHIFT
VBSWAP_LOGICAL_BLOCK_SHIFT == 12
VBSWAP_LOGICAL_BLOCK_SIZE == 2 ^ VBSWAP_LOGICAL_BLOCK_SHIFT
VBSWAP_SECTOR_PER_LOGICAL_BLOCK == 2 ^ (VBSWAP_LOGICAL_BLOCK_SHIFT - SECTOR_SHIFT)
SZ_1G == 1073741824

\* x >> k and x & (2^k - 1) on unsigned integers
Shr(x, k) == x \div (2 ^ k)
AndMask(x, pow2) == x % pow2

\* vbswap_disksize = PAGE_ALIGN((u64)SZ_1G * 6) is 6442450944 bytes, more than
\* the checker's integers hold, so the capacity is kept in sectors:
\* PAGE_ALIGN rounds up to a whole page, here to a whole SECTORS_PER_PAGE.
PAGE_ALIGN_SECTORS(x) ==
  ((x + SECTORS_PER_PAGE - 1) \div SECTORS_PER_PAGE) * SECTORS_PER_PAGE
vbswap_disksize_sectors == PAGE_ALIGN_SECTORS((SZ_1G \div SECTOR_SIZE) * 6)
\* vbswap_disksize >> SECTOR_SHIFT
CapSectors == vbswap_disksize_sectors

\* "%llu": the decimal digits of a number, most significant first
RECURSIVE Digits(_)
Digits(n) == IF n < 10 THEN <<n>> ELSE Append(Digits(n \div 10), n % 10)
\* digits ds times k plus carry, by long multiplication from the last digit
RECURSIVE MulDigits(_, _, _)
MulDigits(ds, k, carry) ==
  IF ds = <<>> THEN (IF carry = 0 THEN <<>> ELSE Digits(carry))
  ELSE LET v == ds[Len(ds)] * k + carry IN
       Append(MulDigits(SubSeq(ds, 1, Len(ds) - 1), k, v \div 10), v % 10)
\* the bytes of vbswap_disksize as disksize_show prints them: (u64)SZ_1G * 6,
\* which PAGE_ALIGN leaves as it is (vbswap_disksize_sectors is whole pages)
vbswap_disksize_digits == MulDigits(Digits(SZ_1G), 6, 0)

\* ------------------------------------------------------------ values
NULL == 0
PageIds == 1..NPages
Cells == 1..PageChunks
\* bytes: 0, the payload bytes, the content of memory nobody initialised,
\* and what a caller's buffer held before its read
Stale == MaxPayload + 1
Old == MaxPayload + 2
Bytes == 0..Old
ConstPage(b) == [c \in Cells |-> b]
ZeroPage == ConstPage(0)
Payloads == {ConstPage(b) : b \in 1..MaxPayload}
READ == 0
WRITE == 1

\* ------------------------------------------------------------ requests
Sectors ==
  {4 * k : k \in 0..MaxSectorUnits}
    \cup {CapSectors - 8 + 8 * k : k \in 0..MaxSectorUnits}
SegLens == {k * (PAGE_SIZE \div 2) : k \in 1..MaxLenUnits}
BvOffsets == {0, PAGE_SIZE \div 2}
BioVecs == [bv_len : SegLens, bv_offset : BvOffsets]
SegLists == UNION {[1..n -> BioVecs] : n \in 0..MaxSegs}

RECURSIVE SumLen(_)
SumLen(segs) ==
  IF segs = <<>> THEN 0 ELSE segs[1].bv_len + SumLen(Tail(segs))

\* A bio as the block layer builds it: bi_size is the sum of its segments'
\* lengths and bi_vcnt their number.
MkBio(rw, sector, segs, kthread) ==
  [rw |-> rw, bi_sector |-> sector, bi_size |-> SumLen(segs),
   bi_vcnt |-> Len(segs), segs |-> segs, kthread |-> kthread]
OnePage == <<[bv_len |-> PAGE_SIZE, bv_offset |-> 0]>>
\* the start sectors of concurrent callers: page index 0 or 1
PageSectors == {0, SECTORS_PER_PAGE}
NoBio == MkBio(READ, 0, <<>>, FALSE)

\* ------------------------------------------------------------ state
VARIABLES
  swap_header_page,  \* the global: NULL or the retained page
  page_alloc,        \* page allocator: frame -> allocated?
  page_mem,          \* memory: frame -> content (Stale: whatever a free frame holds)
  bad_free,          \* __free_page was called on a frame that was not allocated
  pc,                \* caller -> its position in the driver
  bio,               \* caller -> the request it submitted last
  user_mem,          \* caller -> content of the page of its segment (bv_page)
  status,            \* caller -> "none", "pending", "ok" (BLK_STS_OK), "eio"
  index,             \* caller -> local u32 index of __vbswap_make_request
  iter,              \* caller -> segment bio_for_each_segment is at
  hp,                \* caller -> the value it loaded from swap_header_page
  ci,                \* caller -> next cell of the memcpy in progress
  hist,              \* history: the last completed operation on page 0, and
                     \*   for a write that followed a write the page it replaced
  nwrite0,           \* history: writes of page 0 submitted (0, 1, 2 = more)
  fresh,             \* history: caller -> its read of page 0 began after the one
                     \*   write of page 0 completed, with no read completed since
  nhdr,              \* history: such reads that returned a written page (0, 1,
                     \*   2 = more); kept while nwrite0 = 1
  sysfs,             \* the last call of a disksize attribute method: the
                     \*   length it was given, what it returned and printed,
                     \*   and whether a store came before
  lifecycle,         \* "live" from vbswap_init on; after vbswap_exit "exited",
                     \*   or "exit_oops" when destroy_device faulted
  klog               \* caller -> the levels of the kernel log messages its
                     \*   request has called for: "err" (pr_err), "debug"
                     \*   (pr_debug)

vars ==
  <<swap_header_page, page_alloc, page_mem, bad_free, pc, bio, user_mem,
    status, index, iter, hp, ci, hist, nwrite0, fresh, nhdr, sysfs,
    lifecycle, klog>>
heap == <<swap_header_page, page_alloc, page_mem, bad_free>>
ghost == <<hist, nwrite0, nhdr, sysfs, lifecycle>>
io == <<pc, bio, user_mem, status, index, iter, hp, ci, fresh, klog>>
WritePcs == {"bvec_write", "wr_alloc", "wr_kmap", "wr_copy"}

Procs == 1..NProcs

\* HeaderState of the specification: Empty, or Holding with its bytes
Empty == <<"Empty">>
Holding(bytes) == <<"Holding", bytes>>
HeaderState ==
  IF swap_header_page = NULL THEN Empty
  ELSE Holding(page_mem[swap_header_page])

Init ==
  /\ swap_header_page = NULL
  /\ page_alloc = [f \in PageIds |-> FALSE]
  /\ page_mem = [f \in PageIds |-> ConstPage(Stale)]
  /\ bad_free = FALSE
  /\ pc = [p \in Procs |-> "idle"]
  /\ bio = [p \in Procs |-> NoBio]
  /\ user_mem = [p \in Procs |-> ConstPage(Old)]
  /\ status = [p \in Procs |-> "none"]
  /\ index = [p \in Procs |-> 0]
  /\ iter = [p \in Procs |-> 0]
  /\ hp = [p \in Procs |-> NULL]
  /\ ci = [p \in Procs |-> 0]
  /\ hist = [op |-> "none", data |-> ZeroPage, over |-> ZeroPage]
  /\ nwrite0 = 0
  /\ fresh = [p \in Procs |-> FALSE]
  /\ nhdr = 0
  /\ sysfs = [op |-> "none", len |-> 0, ret |-> 0, out |-> <<>>, stored |-> FALSE]
  /\ lifecycle = "live"
  /\ klog = [p \in Procs |-> {}]

\* ------------------------------------------------------------ validation
\* seeded fault: the bounds test off by one: > for >=
vbswap_valid_io_request_gt(b) ==
  ~ \/ b.bi_sector > CapSectors
    \/ AndMask(b.bi_sector, VBSWAP_SECTOR_PER_LOGICAL_BLOCK) # 0
    \/ AndMask(b.bi_size, VBSWAP_LOGICAL_BLOCK_SIZE) # 0

\* Check if request is within bounds and aligned on vbswap logical blocks.
vbswap_valid_io_request(b) ==
  ~ \/ b.bi_sector >= CapSectors
    \/ AndMask(b.bi_sector, VBSWAP_SECTOR_PER_LOGICAL_BLOCK) # 0
    \/ AndMask(b.bi_size, VBSWAP_LOGICAL_BLOCK_SIZE) # 0

\* index = bio->bi_iter.bi_sector >> SECTORS_PER_PAGE_SHIFT; index is a u32,
\* which holds every sector >> 3 of a sector below the capacity
RequestIndex(b) == Shr(b.bi_sector, SECTORS_PER_PAGE_SHIFT)
\* offset = (bio->bi_iter.bi_sector & (SECTORS_PER_PAGE - 1)) << SECTOR_SHIFT
RequestOffset(b) == AndMask(b.bi_sector, SECTORS_PER_PAGE) * SECTOR_SIZE

\* seeded fault: only the offset is tested before the loop
RequestFits_offset_only(b) == RequestOffset(b) = 0

\* seeded fault: a request without a segment is refused as well
RequestFits_exactly_one(b) ==
  /\ RequestOffset(b) = 0
  /\ ~ (b.bi_size > PAGE_SIZE)
  /\ b.bi_vcnt = 1

\* the checks of __vbswap_make_request before its loop: goto out_error when
\* the offset is not zero, the size exceeds a page, or bi_vcnt exceeds one
RequestFits(b) ==
  /\ RequestOffset(b) = 0
  /\ ~ (b.bi_size > PAGE_SIZE)
  /\ ~ (b.bi_vcnt > 1)

\* seeded fault: the segment check without its offset test
BvecAligned_len_only(bvec) == ~ (bvec.bv_len # PAGE_SIZE)

\* the check on each segment inside the loop
BvecAligned(bvec) == ~ (bvec.bv_len # PAGE_SIZE \/ bvec.bv_offset # 0)

\* seeded fault: a write is taken at any page index
WriteIndexOk_any(idx) == TRUE

\* vbswap_bvec_write: index != 0 returns -EIO
WriteIndexOk(idx) == ~ (idx # 0)

\* One turn of bio_for_each_segment for segment i at page index idx: where
\* the caller goes next.  The loop ends when the segments are used up
\* (bi_status = BLK_STS_OK, bio_endio); a misaligned segment or a failed page
\* operation leaves by out_error (bio_io_error).
\* Its log: pr_err for a misaligned segment; else the pr_debug of the loop
\* and what the page operation logs on entry, pr_err for an index other than
\* 0, which for a write is followed by the pr_err for its -EIO.
Dispatch(b, idx, i) ==
  IF i > Len(b.segs) THEN [pc |-> "done", status |-> "ok", log |-> {}]
  ELSE IF ~ BvecAligned(b.segs[i])
  THEN [pc |-> "done", status |-> "eio", log |-> {"err"}]
  ELSE IF b.rw = READ
  THEN [pc |-> "bvec_read", status |-> "pending",
        log |-> {"debug"} \cup (IF idx # 0 THEN {"err"} ELSE {})]
  ELSE IF ~ WriteIndexOk(idx)
  THEN [pc |-> "done", status |-> "eio", log |-> {"debug", "err"}]
  ELSE [pc |-> "bvec_write", status |-> "pending", log |-> {"debug"}]

\* seeded fault: the request goes to the loop without the checks before it
MakeRequestInner_unchecked(b) == Dispatch(b, RequestIndex(b), 1)

\* seeded fault: an invalid request is reported with pr_debug
MakeRequestInner_quiet(b) ==
  IF ~ vbswap_valid_io_request(b)
  THEN [pc |-> "done", status |-> "eio", log |-> {"debug"}]
  ELSE IF ~ RequestFits(b)
  THEN [pc |-> "done", status |-> "eio",
        log |-> {"debug"} \cup (IF RequestOffset(b) # 0 THEN {"err"} ELSE {})]
  ELSE LET n == Dispatch(b, RequestIndex(b), 1) IN
       [pc |-> n.pc, status |-> n.status, log |-> {"debug"} \cup n.log]

\* __vbswap_make_request up to its first page operation.  Its log: pr_err
\* for an invalid request; else the pr_debug of the parameters, pr_err for
\* an offset, nothing for the size and bi_vcnt tests, and the log of the loop
MakeRequestInner(b) ==
  IF ~ vbswap_valid_io_request(b)
  THEN [pc |-> "done", status |-> "eio", log |-> {"err"}]
  ELSE IF ~ RequestFits(b)
  THEN [pc |-> "done", status |-> "eio",
        log |-> {"debug"} \cup (IF RequestOffset(b) # 0 THEN {"err"} ELSE {})]
  ELSE LET n == Dispatch(b, RequestIndex(b), 1) IN
       [pc |-> n.pc, status |-> n.status, log |-> {"debug"} \cup n.log]

\* seeded fault: no test of the caller's flags
OriginGate_open(b) == MakeRequestInner(b)

\* Deliberately error out on kernel swap: current->flags & PF_KTHREAD
OriginGate(b) ==
  IF b.kthread THEN [pc |-> "done", status |-> "eio", log |-> {}]
  ELSE MakeRequestInner(b)

\* ------------------------------------------------------------ helpers
Sat2(n) == IF n < 2 THEN n + 1 ELSE 2

\* cells of a page covered by byte offset off and byte length len
OffCells(off) == (off * PageChunks) \div PAGE_SIZE
LenCells(len) == (len * PageChunks) \div PAGE_SIZE

\* memset(user_mem + bv_offset, 0, bv_len)
Memset0(page, bvec) ==
  [c \in Cells |->
     IF c > OffCells(bvec.bv_offset)
        /\ c <= OffCells(bvec.bv_offset) + LenCells(bvec.bv_len)
     THEN 0 ELSE page[c]]

\* the request leaves the driver: nothing of it stays in the locals
Finish(p, st) ==
  /\ pc' = [pc EXCEPT ![p] = "done"]
  /\ status' = [status EXCEPT ![p] = st]
  /\ index' = [index EXCEPT ![p] = 0]
  /\ iter' = [iter EXCEPT ![p] = 0]
  /\ hp' = [hp EXCEPT ![p] = NULL]
  /\ ci' = [ci EXCEPT ![p] = 0]
  /\ fresh' = [fresh EXCEPT ![p] = FALSE]

\* the history of page 0 when a page operation of p returned 0 and the
\* request completes with BLK_STS_OK; um is p's page after the operation
Record(p, um) ==
  IF RequestIndex(bio[p]) # 0 THEN UNCHANGED ghost
  ELSE IF bio[p].rw = READ
  THEN /\ hist' = [op |-> "read", data |-> ZeroPage, over |-> ZeroPage]
       /\ nhdr' = IF fresh[p] /\ um \in Payloads THEN Sat2(nhdr) ELSE nhdr
       /\ UNCHANGED <<nwrite0, sysfs, lifecycle>>
  ELSE /\ hist' = [op |-> "write", data |-> um,
                  over |-> IF hist.op = "write" THEN hist.data ELSE ZeroPage]
       /\ UNCHANGED <<nwrite0, nhdr, sysfs, lifecycle>>

\* a page operation returned 0: index++, and the loop goes on
Continue(p, um) ==
  LET n == Dispatch(bio[p], index[p] + 1, iter[p] + 1) IN
  /\ klog' = [klog EXCEPT ![p] = klog[p] \cup n.log]
  /\ IF n.pc = "done"
     THEN /\ Finish(p, n.status)
          /\ IF n.status = "ok" THEN Record(p, um) ELSE UNCHANGED ghost
     ELSE /\ pc' = [pc EXCEPT ![p] = n.pc]
          /\ index' = [index EXCEPT ![p] = index[p] + 1]
          /\ iter' = [iter EXCEPT ![p] = iter[p] + 1]
          /\ UNCHANGED <<status, hp, ci, fresh, ghost>>

\* the kernel dereferences a NULL page: the caller dies in the driver and
\* its request is never completed
Oops(p) ==
  /\ pc' = [pc EXCEPT ![p] = "oops"]
  /\ UNCHANGED <<status, index, iter, hp, ci, fresh, klog>>

\* ------------------------------------------------------------ actions
\* a caller hands a bio to the device
Submit(p, b, data) ==
  /\ lifecycle = "live"
  /\ pc[p] = "idle"
  /\ bio' = [bio EXCEPT ![p] = b]
  /\ user_mem' = [user_mem EXCEPT ![p] = data]
  /\ pc' = [pc EXCEPT ![p] = "submitted"]
  /\ status' = [status EXCEPT ![p] = "pending"]
  /\ UNCHANGED <<heap, index, iter, hp, ci, fresh, klog, ghost>>

\* vbswap_make_request and __vbswap_make_request up to the first page operation
vbswap_make_request(p) ==
  /\ pc[p] = "submitted"
  /\ klog' = [klog EXCEPT ![p] = OriginGate(bio[p]).log]
  /\ LET n == OriginGate(bio[p]) IN
     IF n.pc = "done"
     THEN /\ Finish(p, n.status)
          /\ UNCHANGED <<nwrite0, nhdr>>
     ELSE /\ pc' = [pc EXCEPT ![p] = n.pc]
          /\ index' = [index EXCEPT ![p] = RequestIndex(bio[p])]
          /\ iter' = [iter EXCEPT ![p] = 1]
          /\ nwrite0' = IF n.pc = "bvec_write" THEN Sat2(nwrite0) ELSE nwrite0
          /\ IF nwrite0' = 2
             THEN /\ fresh' = [q \in Procs |-> FALSE]
                  /\ nhdr' = 0
             ELSE /\ fresh' = [fresh EXCEPT ![p] =
                       /\ n.pc = "bvec_read"
                       /\ RequestIndex(bio[p]) = 0
                       /\ hist.op = "write"
                       /\ \A q \in Procs : pc[q] \notin WritePcs]
                  /\ UNCHANGED nhdr
          /\ UNCHANGED <<status, hp, ci>>
  /\ UNCHANGED <<heap, bio, user_mem, hist, sysfs, lifecycle>>

\* seeded fault: the header is served at every page index
ReadCheck_any_index(p) ==
  /\ pc[p] = "bvec_read"
  /\ IF swap_header_page # NULL
     THEN /\ hp' = [hp EXCEPT ![p] = swap_header_page]
          /\ pc' = [pc EXCEPT ![p] = "rd_kmap"]
          /\ UNCHANGED <<user_mem, status, index, iter, ci, fresh, klog, ghost>>
     ELSE LET um == Memset0(user_mem[p], bio[p].segs[iter[p]]) IN
          /\ user_mem' = [user_mem EXCEPT ![p] = um]
          /\ Continue(p, um)
  /\ UNCHANGED <<heap, bio>>

\* vbswap_bvec_read: if (index == 0 && swap_header_page) ... else memset
ReadCheck(p) ==
  /\ pc[p] = "bvec_read"
  /\ IF index[p] = 0 /\ swap_header_page # NULL
     THEN /\ hp' = [hp EXCEPT ![p] = swap_header_page]
          /\ pc' = [pc EXCEPT ![p] = "rd_kmap"]
          /\ UNCHANGED <<user_mem, status, index, iter, ci, fresh, klog, ghost>>
     ELSE LET um == Memset0(user_mem[p], bio[p].segs[iter[p]]) IN
          /\ user_mem' = [user_mem EXCEPT ![p] = um]
          /\ Continue(p, um)
  /\ UNCHANGED <<heap, bio>>

\* swap_header_page_mem = kmap_atomic(swap_header_page): the global is read
\* again, or the value read by the test is used
ReadKmap(p) ==
  /\ pc[p] = "rd_kmap"
  /\ \E v \in {hp[p], swap_header_page} :
       IF v = NULL THEN Oops(p)
       ELSE /\ hp' = [hp EXCEPT ![p] = v]
            /\ ci' = [ci EXCEPT ![p] = 1]
            /\ pc' = [pc EXCEPT ![p] = "rd_copy"]
            /\ UNCHANGED <<status, index, iter, fresh, klog>>
  /\ UNCHANGED <<heap, bio, user_mem, ghost>>

\* memcpy(user_mem + bvec->bv_offset, swap_header_page_mem, bvec->bv_len)
ReadCopy(p) ==
  /\ pc[p] = "rd_copy"
  /\ LET bvec == bio[p].segs[iter[p]]
         dst == OffCells(bvec.bv_offset) + ci[p] IN
     /\ user_mem' = [user_mem EXCEPT ![p] =
          [c \in Cells |-> IF c = dst THEN page_mem[hp[p]][ci[p]] ELSE @[c]]]
     /\ IF ci[p] >= LenCells(bvec.bv_len)
        THEN /\ pc' = [pc EXCEPT ![p] = "rd_free"]
             /\ ci' = [ci EXCEPT ![p] = 0]
        ELSE /\ ci' = [ci EXCEPT ![p] = ci[p] + 1]
             /\ UNCHANGED pc
  /\ UNCHANGED <<heap, bio, status, index, iter, hp, fresh, klog, ghost>>

\* __free_page(swap_header_page): the frame goes back to the allocator and
\* what it holds from then on is not the driver's to know
ReadFree(p) ==
  /\ pc[p] = "rd_free"
  /\ \E v \in {hp[p], swap_header_page} :
       IF v = NULL THEN Oops(p) /\ UNCHANGED <<page_alloc, page_mem, bad_free>>
       ELSE /\ page_alloc' = [page_alloc EXCEPT ![v] = FALSE]
            /\ page_mem' = [page_mem EXCEPT ![v] = ConstPage(Stale)]
            /\ bad_free' = (bad_free \/ ~ page_alloc[v])
            /\ pc' = [pc EXCEPT ![p] = "rd_null"]
            /\ UNCHANGED <<status, index, iter, hp, ci, fresh, klog>>
  /\ UNCHANGED <<swap_header_page, bio, user_mem, ghost>>

\* seeded fault: the freed page stays in swap_header_page
ReadClear_keep(p) ==
  /\ pc[p] = "rd_null"
  /\ Continue(p, user_mem[p])
  /\ UNCHANGED <<heap, bio, user_mem>>

\* swap_header_page = NULL; return 0
ReadClear(p) ==
  /\ pc[p] = "rd_null"
  /\ swap_header_page' = NULL
  /\ Continue(p, user_mem[p])
  /\ UNCHANGED <<page_alloc, page_mem, bad_free, bio, user_mem>>

\* vbswap_bvec_write: if (swap_header_page == NULL)
\* seeded fault: a write that finds a page retained leaves it as it is
WriteCheck_keep_first(p) ==
  /\ pc[p] = "bvec_write"
  /\ IF swap_header_page = NULL
     THEN /\ pc' = [pc EXCEPT ![p] = "wr_alloc"]
          /\ UNCHANGED <<status, index, iter, hp, ci, fresh, klog, ghost>>
     ELSE Continue(p, user_mem[p])
  /\ UNCHANGED <<heap, bio, user_mem>>

WriteCheck(p) ==
  /\ pc[p] = "bvec_write"
  /\ IF swap_header_page = NULL
     THEN /\ pc' = [pc EXCEPT ![p] = "wr_alloc"]
          /\ UNCHANGED hp
     ELSE /\ pc' = [pc EXCEPT ![p] = "wr_kmap"]
          /\ hp' = [hp EXCEPT ![p] = swap_header_page]
  /\ UNCHANGED <<heap, bio, user_mem, status, index, iter, ci, fresh, klog, ghost>>

\* swap_header_page = alloc_page(GFP_KERNEL | GFP_NOIO): a free frame with
\* whatever it held before, or NULL when the allocation fails
WriteAlloc(p) ==
  /\ pc[p] = "wr_alloc"
  /\ \E f \in {g \in PageIds : ~ page_alloc[g]} \cup {NULL} :
       /\ swap_header_page' = f
       /\ page_alloc' = [g \in PageIds |-> page_alloc[g] \/ g = f]
       /\ hp' = [hp EXCEPT ![p] = f]
  /\ pc' = [pc EXCEPT ![p] = "wr_kmap"]
  /\ UNCHANGED <<page_mem, bad_free, bio, user_mem, status, index, iter, ci, fresh, klog, ghost>>

\* swap_header_page_mem = kmap_atomic(swap_header_page)
WriteKmap(p) ==
  /\ pc[p] = "wr_kmap"
  /\ \E v \in {hp[p], swap_header_page} :
       IF v = NULL THEN Oops(p)
       ELSE /\ hp' = [hp EXCEPT ![p] = v]
            /\ ci' = [ci EXCEPT ![p] = 1]
            /\ pc' = [pc EXCEPT ![p] = "wr_copy"]
            /\ UNCHANGED <<status, index, iter, fresh, klog>>
  /\ UNCHANGED <<heap, bio, user_mem, ghost>>

\* memcpy(swap_header_page_mem, user_mem, PAGE_SIZE); return 0
WriteCopy(p) ==
  /\ pc[p] = "wr_copy"
  /\ page_mem' = [page_mem EXCEPT ![hp[p]][ci[p]] = user_mem[p][ci[p]]]
  /\ IF ci[p] >= LenCells(PAGE_SIZE)
     THEN Continue(p, user_mem[p])
     ELSE /\ ci' = [ci EXCEPT ![p] = ci[p] + 1]
          /\ UNCHANGED <<pc, status, index, iter, hp, fresh, klog, ghost>>
  /\ UNCHANGED <<swap_header_page, page_alloc, bad_free, bio, user_mem>>

\* the caller takes the completion of its request (bi_end_io) and is free to
\* submit another
Return(p) ==
  /\ pc[p] = "done"
  /\ pc' = [pc EXCEPT ![p] = "idle"]
  /\ bio' = [bio EXCEPT ![p] = NoBio]
  /\ user_mem' = [user_mem EXCEPT ![p] = ConstPage(Old)]
  /\ status' = [status EXCEPT ![p] = "none"]
  /\ klog' = [klog EXCEPT ![p] = {}]
  /\ UNCHANGED <<heap, index, iter, hp, ci, fresh, ghost>>

Step(p) ==
  \/ vbswap_make_request(p)
  \/ Return(p)
  \/ ReadCheck(p)
  \/ ReadKmap(p)
  \/ ReadCopy(p)
  \/ ReadFree(p)
  \/ ReadClear(p)
  \/ WriteCheck(p)
  \/ WriteAlloc(p)
  \/ WriteKmap(p)
  \/ WriteCopy(p)

\* seeded fault: the store reports that it consumed nothing
disksize_store_zero(buf) ==
  /\ lifecycle = "live"
  /\ sysfs' = [op |-> "store", len |-> Len(buf), ret |-> 0, out |-> <<>>, stored |-> TRUE]
  /\ UNCHANGED <<heap, io, hist, nwrite0, nhdr, lifecycle>>

\* disksize_store: return len
disksize_store(buf) ==
  /\ lifecycle = "live"
  /\ sysfs' = [op |-> "store", len |-> Len(buf), ret |-> Len(buf), out |-> <<>>, stored |-> TRUE]
  /\ UNCHANGED <<heap, io, hist, nwrite0, nhdr, lifecycle>>

\* disksize_show: scnprintf(buf, PAGE_SIZE, "%llu\n", vbswap_disksize)
disksize_show ==
  /\ lifecycle = "live"
  /\ sysfs' = [op |-> "show", len |-> 0, ret |-> Len(vbswap_disksize_digits) + 1,
               out |-> vbswap_disksize_digits, stored |-> sysfs.stored]
  /\ UNCHANGED <<heap, io, hist, nwrite0, nhdr, lifecycle>>

\* what is written to the attribute: up to MaxStoreLen digits
StoreBufs == UNION {[1..n -> {0, 9}] : n \in 0..MaxStoreLen}

\* vbswap_exit, run when no request is inside the driver (blk_cleanup_queue
\* drains the queue).  destroy_device reads vbswap_disk->queue after
\* put_disk dropped the last reference of the gendisk: the read of the freed
\* object gives the queue, and the exit goes on to free the retained page,
\* or anything else, and blk_cleanup_queue faults before that
vbswap_exit ==
  /\ lifecycle = "live"
  /\ \A p \in Procs : pc[p] \in {"idle", "oops"}
  /\ \E queue_read \in {"queue", "wild"} :
       IF queue_read = "wild"
       THEN /\ lifecycle' = "exit_oops"
            /\ UNCHANGED <<page_alloc, page_mem, bad_free>>
       ELSE /\ lifecycle' = "exited"
            /\ IF swap_header_page # NULL
               THEN /\ page_alloc' =
                         [page_alloc EXCEPT ![swap_header_page] = FALSE]
                    /\ page_mem' =
                         [page_mem EXCEPT ![swap_header_page] = ConstPage(Stale)]
                    /\ bad_free' = (bad_free \/ ~ page_alloc[swap_header_page])
               ELSE UNCHANGED <<page_alloc, page_mem, bad_free>>
  /\ UNCHANGED <<swap_header_page, io, hist, nwrite0, nhdr, sysfs>>

\* the page of the caller's segment: the payload of a write, and for a read
\* whatever the buffer held
DataFor(rw) == IF rw = WRITE THEN Payloads ELSE {ConstPage(Old)}

\* one caller at a time, any request
SubmitAny(p) ==
  /\ pc[p] = "idle"
  /\ \E rw \in {READ, WRITE}, s \in Sectors, sg \in SegLists, k \in BOOLEAN :
       \E d \in DataFor(rw) : Submit(p, MkBio(rw, s, sg, k), d)

Next ==
  \/ SubmitAny(1)
  \/ Step(1)
  \/ vbswap_exit
Spec == Init /\ [][Next]_vars

\* the same with the disksize attribute read and written in between
NextAttr ==
  \/ Next
  \/ disksize_show
  \/ \E buf \in StoreBufs : disksize_store(buf)
SpecAttr == Init /\ [][NextAttr]_vars

\* NProcs callers at once, each with a one-page request
SubmitPage(p) ==
  /\ pc[p] = "idle"
  /\ \E rw \in {READ, WRITE}, s \in PageSectors :
       \E d \in DataFor(rw) : Submit(p, MkBio(rw, s, OnePage, FALSE), d)

NextConc ==
  \E p \in Procs :
    \/ SubmitPage(p)
    \/ Step(p)
SpecConc == Init /\ [][NextConc]_vars

\* ------------------------------------------------------------ claims
\* the validity rules of a request, as the specification lists them
SpecValid(b) ==
  /\ b.bi_sector < CapSectors
  /\ b.bi_sector % (VBSWAP_LOGICAL_BLOCK_SIZE \div SECTOR_SIZE) = 0
  /\ b.bi_size % VBSWAP_LOGICAL_BLOCK_SIZE = 0
  /\ b.bi_size <= PAGE_SIZE
  /\ Len(b.segs) = 1
  /\ b.segs[1].bv_len = PAGE_SIZE
  /\ b.segs[1].bv_offset = 0
PageIndex(b) == b.bi_sector \div (PAGE_SIZE \div SECTOR_SIZE)
\* p's request completes in this step
Completes(p) == pc[p] # "done" /\ pc'[p] = "done"
\* the handler runs on p's request in this step
Handled(p) == pc[p] = "submitted" /\ pc'[p] # "submitted"
Done(p) == pc[p] = "done"

\* C1: one-shot header delivery.  A successful read of page 0 that follows a
\* successful write of page 0 returns the bytes written; one that follows
\* another read of page 0, with no write in between, returns a page of zeros.
C1_OneShotHeader ==
  [][\A p \in Procs :
       (/\ Completes(p)
        /\ pc[p] # "submitted"
        /\ status'[p] = "ok"
        /\ bio[p].rw = READ
        /\ PageIndex(bio[p]) = 0)
       => /\ hist.op = "write" => user_mem'[p] = hist.data
          /\ hist.op = "read" => user_mem'[p] = ZeroPage]_vars
\* one write, the read that got its bytes, and then a read that got zeros
C1_Witness ==
  /\ Done(1) /\ status[1] = "ok" /\ bio[1].rw = READ /\ PageIndex(bio[1]) = 0
  /\ nwrite0 = 1 /\ nhdr = 1
  /\ hist.op = "read"
  /\ user_mem[1] = ZeroPage

\* C2: non-header zero fill.  A valid read of a page index other than 0
\* succeeds and returns a page of zeros, whatever the header holds.
C2_NonHeaderZeroFill ==
  \A p \in Procs :
    (/\ Done(p)
     /\ bio[p].rw = READ
     /\ ~ bio[p].kthread
     /\ SpecValid(bio[p])
     /\ PageIndex(bio[p]) # 0)
    => status[p] = "ok" /\ user_mem[p] = ZeroPage
C2_Witness ==
  /\ Done(1) /\ bio[1].rw = READ /\ ~ bio[1].kthread /\ SpecValid(bio[1])
  /\ PageIndex(bio[1]) # 0
  /\ status[1] = "ok" /\ user_mem[1] = ZeroPage
  /\ HeaderState \in {Holding(b) : b \in Payloads}

\* C3: write restriction.  An otherwise valid write at a page index other
\* than 0 completes with an I/O error and leaves HeaderState as it was.
C3_WriteRestriction ==
  [][\A p \in Procs :
       (/\ Handled(p)
        /\ bio[p].rw = WRITE
        /\ ~ bio[p].kthread
        /\ SpecValid(bio[p])
        /\ PageIndex(bio[p]) # 0)
       => /\ pc'[p] = "done"
          /\ status'[p] = "eio"
          /\ HeaderState' = HeaderState]_vars
C3_Witness ==
  /\ Done(1) /\ bio[1].rw = WRITE /\ ~ bio[1].kthread /\ SpecValid(bio[1])
  /\ PageIndex(bio[1]) # 0
  /\ status[1] = "eio"
  /\ HeaderState \in {Holding(b) : b \in Payloads}

\* C4: origin rejection.  A request of a caller with the kernel-thread flag
\* completes with an I/O error whatever its parameters, and neither
\* HeaderState, the frames nor the caller's page change; the request of any
\* other caller gets the outcome of the validation.
C4_OriginRejection ==
  [][\A p \in Procs :
       Handled(p)
       => IF bio[p].kthread
          THEN /\ pc'[p] = "done"
               /\ status'[p] = "eio"
               /\ HeaderState' = HeaderState
               /\ UNCHANGED <<heap, user_mem>>
          ELSE /\ pc'[p] = MakeRequestInner(bio[p]).pc
               /\ status'[p] = MakeRequestInner(bio[p]).status]_vars
\* a kernel thread's read of page 0, valid in every other respect, refused
\* while the header is held
C4_Witness ==
  /\ Done(1) /\ bio[1].kthread /\ bio[1].rw = READ /\ SpecValid(bio[1])
  /\ PageIndex(bio[1]) = 0
  /\ status[1] = "eio"
  /\ user_mem[1] = ConstPage(Old)
  /\ HeaderState \in {Holding(b) : b \in Payloads}

\* C5: out-of-bounds rejection.  The capacity is 12582912 sectors; a request
\* that starts at or after it completes with an I/O error, and a valid read
\* of the last page below it succeeds.
C5_OutOfBounds ==
  /\ CapSectors = 12582912
  /\ \A p \in Procs :
       /\ (Done(p) /\ bio[p].bi_sector >= CapSectors) => status[p] = "eio"
       /\ (/\ Done(p)
           /\ bio[p].rw = READ
           /\ ~ bio[p].kthread
           /\ SpecValid(bio[p])
           /\ bio[p].bi_sector = CapSectors - PAGE_SIZE \div SECTOR_SIZE)
          => status[p] = "ok"
\* the boundary: a one-page request at the capacity itself
C5_Witness ==
  /\ Done(1) /\ ~ bio[1].kthread /\ bio[1].bi_sector = CapSectors
  /\ bio[1].segs = OnePage
  /\ status[1] = "eio"

\* C6: misalignment rejection.  A request whose length is not a multiple of
\* 4096 or whose start sector is not a multiple of 8 completes with an I/O
\* error.
C6_Misaligned ==
  \A p \in Procs :
    (/\ Done(p)
     /\ \/ bio[p].bi_size % 4096 # 0
        \/ bio[p].bi_sector % 8 # 0)
    => status[p] = "eio"
C6_Witness ==
  /\ Done(1) /\ ~ bio[1].kthread /\ bio[1].bi_sector = 4
  /\ bio[1].segs = OnePage
  /\ status[1] = "eio"

\* C7: oversize rejection.  A request longer than a page, of more than one
\* segment, or with a segment that is not one page at offset zero completes
\* with an I/O error.
C7_Oversize ==
  \A p \in Procs :
    (/\ Done(p)
     /\ \/ bio[p].bi_size > PAGE_SIZE
        \/ Len(bio[p].segs) > 1
        \/ \E i \in 1..Len(bio[p].segs) :
             \/ bio[p].segs[i].bv_len # PAGE_SIZE
             \/ bio[p].segs[i].bv_offset # 0)
    => status[p] = "eio"
\* a write of 8192 bytes at sector 0
C7_Witness ==
  /\ Done(1) /\ ~ bio[1].kthread /\ bio[1].rw = WRITE /\ bio[1].bi_sector = 0
  /\ bio[1].bi_size = 2 * PAGE_SIZE
  /\ status[1] = "eio"

\* C8: mutual exclusion of header transitions.  At most one caller is between
\* the first and the last access of its page operation to swap_header_page.
InHeaderOp(p) ==
  pc[p] \in {"rd_kmap", "rd_copy", "rd_free", "rd_null",
             "wr_alloc", "wr_kmap", "wr_copy"}
C8_MutualExclusion == Cardinality({p \in Procs : InHeaderOp(p)}) <= 1

\* C9: exactly one reader.  After one write of page 0 has completed, and with
\* no other write, at most one of the reads of page 0 that began from then on
\* (and before any of them completed) has returned the written page.
C9_ExactlyOneReader == nwrite0 = 1 => nhdr <= 1

\* C10: no stale or uninitialised data.  The page a successful read returns
\* is all zeros or the whole page of one write.
C10_NoStaleData ==
  \A p \in Procs :
    (Done(p) /\ status[p] = "ok" /\ bio[p].rw = READ /\ bio[p].segs # <<>>)
    => user_mem[p] \in {ZeroPage} \cup Payloads

\* C11: the capacity attribute is read-only in effect.  A store of any
\* content returns the whole length and changes nothing of the device; a
\* query prints 6442450944 also after stores, and a request at or after
\* sector 12582912 is still refused.
C11_CapacityReadOnly ==
  [][/\ (sysfs' # sysfs /\ sysfs'.op = "store")
        => /\ sysfs'.ret = sysfs'.len
           /\ UNCHANGED <<heap, io>>
     /\ (sysfs' # sysfs /\ sysfs'.op = "show")
        => /\ sysfs'.out = <<6, 4, 4, 2, 4, 5, 0, 9, 4, 4>>
           /\ UNCHANGED <<heap, io>>
     /\ \A p \in Procs :
          (sysfs.stored /\ Handled(p) /\ ~ bio[p].kthread)
          => (bio[p].bi_sector >= 12582912 => status'[p] = "eio")]_vars
\* a query after a store, and a request at the capacity refused
C11_Witness ==
  /\ sysfs.op = "show" /\ sysfs.stored
  /\ sysfs.out = <<6, 4, 4, 2, 4, 5, 0, 9, 4, 4>>
  /\ Done(1) /\ ~ bio[1].kthread /\ bio[1].bi_sector = CapSectors
  /\ bio[1].segs = OnePage /\ status[1] = "eio"

\* a request without a segment, at a sector that is aligned and in bounds
ZeroSegments(b) ==
  /\ b.segs = <<>>
  /\ b.bi_size = 0
  /\ b.bi_sector < CapSectors
  /\ b.bi_sector % 8 = 0

\* C12 as stated: exactly one segment is required, so that a request with
\* zero segments (length 0, start sector aligned and in bounds) completes
\* with an I/O error.
C12_ExactlyOneSegment ==
  \A p \in Procs :
    (Done(p) /\ ~ bio[p].kthread /\ ZeroSegments(bio[p]))
    => status[p] = "eio"
\* C12 amended: at most one segment is accepted.  A request that succeeds
\* has at most one segment, and a request with zero segments (length 0,
\* start sector aligned and in bounds) completes with success in the
\* handler itself, no page operation run and nothing changed.
C12_AtMostOneSegment ==
  [][\A p \in Procs :
       /\ (Completes(p) /\ status'[p] = "ok") => Len(bio[p].segs) <= 1
       /\ (Handled(p) /\ ~ bio[p].kthread /\ ZeroSegments(bio[p]))
          => /\ pc'[p] = "done"
             /\ status'[p] = "ok"
             /\ HeaderState' = HeaderState
             /\ UNCHANGED <<heap, user_mem>>]_vars
\* a read without a segment at sector 0 has succeeded and left the header
C12_Witness ==
  /\ Done(1) /\ ~ bio[1].kthread /\ ZeroSegments(bio[1])
  /\ bio[1].rw = READ /\ bio[1].bi_sector = 0
  /\ status[1] = "ok"
  /\ user_mem[1] = ConstPage(Old)
  /\ HeaderState \in {Holding(b) : b \in Payloads}

\* a write of page 0 that passes every check, from a caller that is allowed
HeaderWrite(b) ==
  b # NoBio /\ b.rw = WRITE /\ ~ b.kthread /\ SpecValid(b) /\ PageIndex(b) = 0

\* C13: a failed allocation is a failed request.  A write of page 0 that is
\* past its allocation while no page is retained (the allocation failed)
\* has completed with an I/O error: nothing was copied and HeaderState is
\* Empty.
C13_AllocationFailure ==
  \A p \in Procs :
    (/\ HeaderWrite(bio[p])
     /\ pc[p] \notin {"idle", "submitted", "bvec_write", "wr_alloc", "wr_kmap"}
     /\ swap_header_page = NULL)
    => /\ pc[p] = "done"
       /\ status[p] = "eio"
       /\ HeaderState = Empty

\* C14: atomic failure.  A request that completes with an I/O error does so
\* in the handler itself, before any page operation: the frames, HeaderState
\* and the caller's page are as they were when it was submitted, and the
\* buffer of a refused read still holds what it held.
C14_AtomicFailure ==
  [][\A p \in Procs :
       (Completes(p) /\ status'[p] = "eio")
       => /\ pc[p] = "submitted"
          /\ HeaderState' = HeaderState
          /\ UNCHANGED <<heap, user_mem>>
          /\ bio[p].rw = READ => user_mem'[p] = ConstPage(Old)]_vars
\* a read of 8192 bytes at sector 0 refused while the header is held
C14_Witness ==
  /\ Done(1) /\ ~ bio[1].kthread /\ bio[1].rw = READ /\ bio[1].bi_sector = 0
  /\ bio[1].bi_size = 2 * PAGE_SIZE
  /\ status[1] = "eio"
  /\ user_mem[1] = ConstPage(Old)
  /\ HeaderState \in {Holding(b) : b \in Payloads}

\* no request is inside the driver
Quiescent == \A p \in Procs : pc[p] \in {"idle", "submitted", "done"}
\* p is inside a page operation of a request on page 0 that passed the checks
InPageZeroOp(p, rw) ==
  /\ pc[p] \notin {"idle", "submitted", "done", "oops"}
  /\ bio[p].rw = rw
  /\ ~ bio[p].kthread
  /\ SpecValid(bio[p])
  /\ PageIndex(bio[p]) = 0

\* C15: header transitions.  While the device lives, HeaderState changes
\* only inside a write of page 0 that passed the checks, towards Holding, or
\* inside a read of page 0 that found it Holding, towards Empty; no other
\* request changes it, so that a read of another page does not consume the
\* header and a read of page 0 while Empty leaves it Empty.  Between requests
\* HeaderState is Holding the page of the last successful write of page 0 if
\* no successful read of page 0 followed it, and Empty otherwise.
C15_HeaderTransitions ==
  [][/\ (lifecycle' = "live" /\ HeaderState' # HeaderState)
        => \E p \in Procs :
             \/ InPageZeroOp(p, WRITE) /\ HeaderState' # Empty
             \/ InPageZeroOp(p, READ) /\ HeaderState # Empty
     /\ \A p \in Procs :
          (/\ Completes(p)
           /\ pc[p] # "submitted"
           /\ status'[p] = "ok"
           /\ PageIndex(bio[p]) = 0)
          => HeaderState' = IF bio[p].rw = WRITE THEN Holding(user_mem[p])
                            ELSE Empty
     /\ (lifecycle = "live" /\ Quiescent)
        => HeaderState = IF hist.op = "write" THEN Holding(hist.data)
                         ELSE Empty]_vars
\* a read of page 1 has succeeded after a write of page 0, and the header is
\* still held
C15_Witness ==
  /\ Done(1) /\ bio[1].rw = READ /\ ~ bio[1].kthread /\ SpecValid(bio[1])
  /\ PageIndex(bio[1]) = 1
  /\ status[1] = "ok"
  /\ hist.op = "write"
  /\ HeaderState = Holding(hist.data)
  /\ hist.data \in Payloads

\* C16: latest write wins.  After a successful write of page 0 that followed
\* another with no read of page 0 in between, HeaderState is Holding the
\* page of the later write in the one frame that is allocated, and the read
\* of page 0 that comes next returns the page of the later write.
C16_LatestWriteWins ==
  [][/\ (lifecycle = "live" /\ Quiescent /\ hist.op = "write"
         /\ hist.over # ZeroPage)
        => /\ HeaderState = Holding(hist.data)
           /\ {f \in PageIds : page_alloc[f]} = {swap_header_page}
     /\ \A p \in Procs :
          (/\ Completes(p)
           /\ pc[p] # "submitted"
           /\ status'[p] = "ok"
           /\ bio[p].rw = READ
           /\ PageIndex(bio[p]) = 0
           /\ hist.op = "write"
           /\ hist.over # ZeroPage)
          => user_mem'[p] = hist.data]_vars
\* two writes of different pages, and the read after them has copied the
\* page of the second
C16_Witness ==
  /\ bio[1] # NoBio /\ bio[1].rw = READ /\ PageIndex(bio[1]) = 0
  /\ pc[1] = "rd_free"
  /\ hist.op = "write"
  /\ hist.over \in Payloads /\ hist.data \in Payloads
  /\ hist.over # hist.data
  /\ user_mem[1] = hist.data

\* the positions of a request from which the driver goes on to its completion
Running ==
  {"submitted", "bvec_read", "rd_kmap", "rd_copy", "rd_free", "rd_null",
   "bvec_write", "wr_alloc", "wr_kmap", "wr_copy"}

\* C17: every request is completed exactly once.  A request has its final
\* status, success or I/O error, exactly when it has been completed, and a
\* request that is not yet completed is at a position from which the driver
\* goes on: no path abandons it.
C17_CompletedOnce ==
  \A p \in Procs :
    /\ pc[p] = "done" <=> status[p] \in {"ok", "eio"}
    /\ status[p] = "pending" => pc[p] \in Running

\* C18: header lifecycle.  HeaderState is Empty from the start of the device
\* until the first write of page 0 enters its page operation, and after the
\* shutdown of the device no frame is allocated and none was freed twice: a
\* page still retained at shutdown was freed exactly once.
C18_HeaderLifecycle ==
  /\ (lifecycle = "live" /\ hist.op = "none" /\ nwrite0 = 0)
     => HeaderState = Empty
  /\ lifecycle # "live"
     => /\ \A f \in PageIds : ~ page_alloc[f]
        /\ ~ bad_free

\* C19: memory safety of the retained page.  Whatever the interleaving, no
\* frame is freed twice, no caller copies from or into a frame that has been
\* freed, and every allocated frame is the one swap_header_page names: at
\* most one is allocated and none is dropped without being freed.
C19_RetainedPageSafety ==
  /\ ~ bad_free
  /\ \A p \in Procs :
       (pc[p] \in {"rd_copy", "wr_copy"} /\ hp[p] # NULL) => page_alloc[hp[p]]
  /\ {f \in PageIds : page_alloc[f]} \subseteq {swap_header_page}

\* a start sector or length that violates the bounds or the alignment
BoundsOrAlignment(b) ==
  \/ b.bi_sector >= CapSectors
  \/ b.bi_sector % 8 # 0
  \/ b.bi_size % 4096 # 0

====
